---- MODULE Spec2Model ----
(***************************************************************************)
(* Courtify Mini API (availability check + booking estimate).              *)
(*                                                                         *)
(* Strings are modelled by their structure:                                *)
(*   - a time string "HH:MM" is a record [h, m] of its two digit groups;   *)
(*   - a date string "YYYY-MM-DD" is a record [y, m, d];                   *)
(*   - raw JSON body fields carry a kind k ("undef", "str", "num",         *)
(*     "text") and, for strings, wf = the string matches the field's       *)
(*     regular expression.                                                 *)
(* An optional response field is a sequence of length 0 (absent) or 1.     *)
(***************************************************************************)
EXTENDS Integers, Sequences, FiniteSets, TLC

VARIABLES facilities, startup, req, response, pc

vars == <<facilities, startup, req, response, pc>>

\* Largest number of bookings stored for one date of the registry.
MaxBookings == 3

Max(a, b) == IF a >= b THEN a ELSE b

----------------------------------------------------------------------------
\* String literals of the source.

T(hh, mm) == [h |-> hh, m |-> mm]

Booking(s, e) == [start |-> s, end |-> e]

Date(yy, mm, dd) == [y |-> yy, m |-> mm, d |-> dd]

FacilityId == "courtify-sportsplex"

SeedDate1 == Date(2025, 10, 10)

SeedDate2 == Date(2025, 10, 11)

\* The seed of the source: one facility, open 08:00-22:00, one booking on
\* each of two dates.
SeedFacilities ==
    [f \in {FacilityId} |->
        [id         |-> FacilityId,
         hourlyRate |-> 500,
         open       |-> [start |-> T(8, 0), end |-> T(22, 0)],
         bookings   |-> [dt \in {SeedDate1, SeedDate2} |->
                            IF dt = SeedDate1
                            THEN << Booking(T(10, 0), T(11, 30)) >>
                            ELSE << Booking(T(15, 0), T(16, 0)) >>]]]

----------------------------------------------------------------------------
\* Helpers.

toMinutes(hhmm) == hhmm.h * 60 + hhmm.m

\* /^\d{4}-\d{2}-\d{2}$/.test(s): the pattern only.
isValidDate(s) == s.wf

isValidTime(s) ==
    IF ~s.wf THEN FALSE
    ELSE s.h >= 0 /\ s.h <= 23 /\ s.m >= 0 /\ s.m <= 59

\* Variant: closed intervals, touching counts as overlap.
overlapsClosed(aStart, aEnd, bStart, bEnd) == aStart <= bEnd /\ bStart <= aEnd

overlaps(aStart, aEnd, bStart, bEnd) == aStart < bEnd /\ bStart < aEnd

fmt(mins) == [h |-> mins \div 60, m |-> mins % 60]

\* Number(v): undefined and non-numeric text give NaN, a number is itself, a
\* numeric string is the number it spells.  half marks a value n + 0.5.
NaN == [nan |-> TRUE, n |-> 0, half |-> FALSE]

Number(v) ==
    IF v.k = "num" THEN [nan |-> FALSE, n |-> v.n, half |-> v.half]
    ELSE IF v.k = "str" /\ v.numeric THEN [nan |-> FALSE, n |-> v.n, half |-> v.half]
    ELSE NaN

NumberIsInteger(x) == ~x.nan /\ ~x.half

\* !v of a body field: undefined, the empty string and 0 are falsy.
Falsy(v) ==
    \/ v.k = "undef"
    \/ v.k = "str" /\ v.empty
    \/ v.k = "num" /\ v.n = 0 /\ ~v.half

TypeofString(v) == v.k = "str"

\* Array.prototype.sort with (a, b) => toMinutes(a.start) - toMinutes(b.start):
\* stable, ascending by start.
RECURSIVE InsertByStart(_, _)
InsertByStart(sorted, b) ==
    IF sorted = << >> THEN << b >>
    ELSE IF toMinutes(b.start) < toMinutes(Head(sorted).start)
         THEN << b >> \o sorted
         ELSE << Head(sorted) >> \o InsertByStart(Tail(sorted), b)

RECURSIVE SortByStartFrom(_, _, _)
SortByStartFrom(bookings, i, acc) ==
    IF i > Len(bookings) THEN acc
    ELSE SortByStartFrom(bookings, i + 1, InsertByStart(acc, bookings[i]))

SortByStart(bookings) == SortByStartFrom(bookings, 1, << >>)

----------------------------------------------------------------------------
\* The registry lookup facilities[facilityId] on a plain object: an own key
\* gives the facility; a key inherited from Object.prototype gives a truthy
\* value that has no open, hourlyRate or bookings; any other key is undefined.
\* Three of the inherited keys stand for all of them.
ObjectPrototypeKeys == {"constructor", "toString", "__proto__"}

LookupKind(facs, id) ==
    IF id.s \in DOMAIN facs THEN "own"
    ELSE IF id.s \in ObjectPrototypeKeys THEN "inherited"
    ELSE "undefined"

\* fac.bookings[date] || []
DayBookings(fac, date) ==
    IF [y |-> date.y, m |-> date.m, d |-> date.d] \in DOMAIN fac.bookings
    THEN fac.bookings[[y |-> date.y, m |-> date.m, d |-> date.d]]
    ELSE << >>

\* dayBookings.find(b => overlaps(start, end, toMinutes(b.start), toMinutes(b.end))):
\* the index of the first element, in the order given, that overlaps; 0 if none.
RECURSIVE FindConflictFrom(_, _, _, _)
FindConflictFrom(bookings, i, start, end) ==
    IF i > Len(bookings) THEN 0
    ELSE IF overlaps(start, end, toMinutes(bookings[i].start), toMinutes(bookings[i].end))
         THEN i
         ELSE FindConflictFrom(bookings, i + 1, start, end)

\* Variant: find() walks the bookings sorted by start.
ConflictScanSorted(dayBookings) == SortByStart(dayBookings)

\* The array find() walks: dayBookings itself, in its stored order.
ConflictScanOrder(dayBookings) == dayBookings

\* Variant: the search walks the bookings as stored, unsorted.
SearchSlotsUnsorted(dayBookings) == dayBookings

\* The array the search sorts: dayBookings.slice().sort(...).
SearchSlots(dayBookings) == SortByStart(dayBookings)

\* Variant: dayBookings.sort(...) without slice() sorts the stored array.
StoredAfterSearchInPlace(dayBookings) == SortByStart(dayBookings)

\* What the stored array holds after the search: slice() sorted a copy.
StoredAfterSearch(dayBookings) == dayBookings

SearchStart(start, openStart) == Max(start, openStart)

\* Variant: a gap must be strictly larger than the duration.
GapFitsStrict(cur, dur, bs) == cur + dur < bs

GapFits(cur, dur, bs) == cur + dur <= bs

Advance(cur, be) == Max(cur, be)

\* Variant: the tail must end strictly before closing.
TailFitsStrict(cur, dur, openEnd) == cur + dur < openEnd

TailFits(cur, dur, openEnd) == cur + dur <= openEnd

\* for (const b of slots) { ... }: found = the loop returned from inside.
RECURSIVE ScanSlots(_, _, _, _)
ScanSlots(slots, i, cur, dur) ==
    IF i > Len(slots) THEN [found |-> FALSE, cur |-> cur]
    ELSE IF GapFits(cur, dur, toMinutes(slots[i].start))
         THEN [found |-> TRUE, cur |-> cur]
         ELSE ScanSlots(slots, i + 1, Advance(cur, toMinutes(slots[i].end)), dur)

\* response.nextAvailable: absent (<< >>) or one interval.
NextAvailable(dayBookings, start, dur, openStart, openEnd) ==
    LET r == ScanSlots(SearchSlots(dayBookings), 1, SearchStart(start, openStart), dur)
    IN  IF r.found \/ TailFits(r.cur, dur, openEnd)
        THEN << [startTime |-> fmt(r.cur), endTime |-> fmt(r.cur + dur)] >>
        ELSE << >>

\* Variant: the boundary value 30 is rejected.
DurationOkAbove30(dur) == NumberIsInteger(dur) /\ ~(dur.n <= 30)

DurationOk(dur) == NumberIsInteger(dur) /\ ~(dur.n < 30)

OutsideOpenHours(start, end, openStart, openEnd) == start < openStart \/ end > openEnd

Error(status, message) == [status |-> status, message |-> message]

\* POST /api/availability/check: the response to body r from registry facs.
CheckResponse(facs, r) ==
    IF Falsy(r.facilityId) \/ ~TypeofString(r.facilityId)
    THEN Error(400, << "facilityId is required" >>)
    ELSE IF Falsy(r.date) \/ ~isValidDate(r.date)
    THEN Error(400, << "date must be YYYY-MM-DD" >>)
    ELSE IF Falsy(r.startTime) \/ ~isValidTime(r.startTime)
    THEN Error(400, << "startTime must be HH:MM" >>)
    ELSE IF ~DurationOk(Number(r.durationMinutes))
    THEN Error(400, << "durationMinutes must be integer >= 30" >>)
    ELSE IF LookupKind(facs, r.facilityId) = "undefined"
    THEN Error(404, << "facility not found" >>)
    ELSE IF LookupKind(facs, r.facilityId) = "inherited"
    THEN \* fac.open is undefined: fac.open.start throws, next(err) answers
         Error(500, << "Something went wrong" >>)
    ELSE
    LET fac       == facs[r.facilityId.s]
        dur       == Number(r.durationMinutes).n
        openStart == toMinutes(fac.open.start)
        openEnd   == toMinutes(fac.open.end)
        start     == toMinutes(r.startTime)
        end       == start + dur
    IN  IF OutsideOpenHours(start, end, openStart, openEnd)
        THEN Error(422, << "Requested time outside open hours ",
                           fac.open.start, "-", fac.open.end >>)
        ELSE
        LET dayBookings == DayBookings(fac, r.date)
            scanned     == ConflictScanOrder(dayBookings)
            ci          == FindConflictFrom(scanned, 1, start, end)
        IN  [status        |-> 200,
             facilityId    |-> r.facilityId,
             date          |-> r.date,
             startTime     |-> r.startTime,
             endTime       |-> fmt(end),
             isAvailable   |-> (ci = 0),
             conflict      |-> IF ci = 0 THEN << >> ELSE << scanned[ci] >>,
             nextAvailable |-> IF ci = 0 THEN << >>
                               ELSE NextAvailable(dayBookings, start, dur,
                                                  openStart, openEnd)]

\* The registry after the handler has answered r: only the conflict branch
\* touches the stored array of the date, and only through slice().
RegistryAfterCheck(facs, r) ==
    LET resp == CheckResponse(facs, r)
    IN  IF resp.status = 200 /\ ~resp.isAvailable
        THEN LET id == r.facilityId.s
                 dt == [y |-> r.date.y, m |-> r.date.m, d |-> r.date.d]
             IN  [facs EXCEPT ![id].bookings[dt] = StoredAfterSearch(@)]
        ELSE facs

\* +(fac.hourlyRate * (dur / 60)).toFixed(2), in hundredths of a peso.
EstimatedPrice(hourlyRate, dur) == (2 * hourlyRate * dur * 100 + 60) \div 120

\* POST /api/booking/estimate.
EstimateResponse(facs, r) ==
    IF Falsy(r.facilityId) \/ ~TypeofString(r.facilityId)
    THEN Error(400, << "facilityId is required" >>)
    ELSE IF ~DurationOk(Number(r.durationMinutes))
    THEN Error(400, << "durationMinutes must be integer >= 30" >>)
    ELSE IF LookupKind(facs, r.facilityId) = "undefined"
    THEN Error(404, << "facility not found" >>)
    ELSE
    LET dur == Number(r.durationMinutes).n
        own == LookupKind(facs, r.facilityId) = "own"
    IN  \* an inherited value has no hourlyRate: the product is NaN
        [status          |-> 200,
         facilityId      |-> r.facilityId,
         hourlyRate      |-> IF own THEN << facs[r.facilityId.s].hourlyRate >> ELSE << >>,
         durationMinutes |-> dur,
         estimatedPrice  |-> IF own
                             THEN << EstimatedPrice(facs[r.facilityId.s].hourlyRate, dur) >>
                             ELSE << >>,
         currency        |-> "PHP"]

----------------------------------------------------------------------------
\* Values of the JSON body fields.

Undefined == [k |-> "undef"]

Str(str) == [k |-> "str", empty |-> (str = ""), s |-> str]

Num(i) == [k |-> "num", n |-> i, half |-> FALSE]

\* The number i + 0.5.
Frac(i) == [k |-> "num", n |-> i, half |-> TRUE]

\* The string that spells the integer i, such as "45".
NumStr(i) == [k |-> "str", empty |-> FALSE, numeric |-> TRUE, n |-> i, half |-> FALSE]

\* A string that spells no number, such as "abc".
Text == [k |-> "str", empty |-> FALSE, numeric |-> FALSE]

DateStr(yy, mm, dd) ==
    [k |-> "str", empty |-> FALSE, wf |-> TRUE, y |-> yy, m |-> mm, d |-> dd]

\* A string that is not of the shape dddd-dd-dd, such as "10/10/2025".
BadDateStr == [k |-> "str", empty |-> FALSE, wf |-> FALSE]

TimeStr(hh, mm) == [k |-> "str", empty |-> FALSE, wf |-> TRUE, h |-> hh, m |-> mm]

\* A string that is not of the shape dd:dd, such as "9am".
BadTimeStr == [k |-> "str", empty |-> FALSE, wf |-> FALSE]

----------------------------------------------------------------------------
\* The bounded inputs.

\* Intervals a date of the registry may hold: the seed booking, one that
\* overlaps it, one that abuts it, one an hour before closing and one that
\* lies after closing time.
BookingPool ==
    { Booking(T(10, 0), T(11, 30)),
      Booking(T(11, 0), T(12, 0)),
      Booking(T(9, 0),  T(10, 0)),
      Booking(T(20, 0), T(21, 0)),
      Booking(T(22, 30), T(23, 0)) }

BookingLists == UNION { [1..n -> BookingPool] : n \in 0..MaxBookings }

Registries ==
    { [SeedFacilities EXCEPT ![FacilityId].bookings[SeedDate1] = bs] : bs \in BookingLists }

GoodTimes ==
    { TimeStr(7, 0), TimeStr(9, 0), TimeStr(9, 30), TimeStr(10, 0),
      TimeStr(11, 30), TimeStr(20, 0), TimeStr(20, 30) }

GoodDurations == { Num(30), Num(31), Num(45), Num(60), Num(90), NumStr(45) }

GoodDates == { DateStr(2025, 10, 10), DateStr(2025, 10, 11), DateStr(2024, 2, 29) }

GateFacilityIds ==
    { Str(FacilityId), Str("unknown-gym"), Str("constructor"), Str(""), Num(7), Undefined }

GateDates ==
    { DateStr(2025, 10, 10), DateStr(2025, 2, 30), DateStr(2025, 13, 1),
      BadDateStr, Undefined }

GateTimes == { TimeStr(10, 0), TimeStr(24, 0), TimeStr(9, 60), BadTimeStr, Undefined }

GateDurations == { Num(60), Num(29), Frac(30), Text, Undefined }

Body(f, dt, t, du) ==
    [facilityId |-> f, date |-> dt, startTime |-> t, durationMinutes |-> du]

\* Bodies that pass every field check on the seeded facility, and bodies that
\* combine good and bad values of every field.
CheckBodies ==
    { Body(Str(FacilityId), dt, t, du) :
        dt \in GoodDates, t \in GoodTimes, du \in GoodDurations }
    \cup
    { Body(f, dt, t, du) :
        f \in GateFacilityIds, dt \in GateDates, t \in GateTimes, du \in GateDurations }

EstimateBodies ==
    { Body(f, Undefined, Undefined, du) :
        f \in GateFacilityIds, du \in GoodDurations \cup GateDurations }

----------------------------------------------------------------------------
\* The state machine: express.json() hands a parsed body to a route, the
\* route's handler answers it, and the exchange ends.

NoRequest == [endpoint |-> "none"]

NoResponse == [status |-> 0]

Init ==
    /\ facilities \in Registries
    /\ startup = facilities
    /\ req = NoRequest
    /\ response = NoResponse
    /\ pc = "idle"

ReceiveCheck ==
    /\ pc = "idle"
    /\ \E b \in CheckBodies : req' = [endpoint |-> "check", body |-> b]
    /\ pc' = "received"
    /\ UNCHANGED <<facilities, startup, response>>

ReceiveEstimate ==
    /\ pc = "idle"
    /\ \E b \in EstimateBodies : req' = [endpoint |-> "estimate", body |-> b]
    /\ pc' = "received"
    /\ UNCHANGED <<facilities, startup, response>>

AvailabilityCheck ==
    /\ pc = "received"
    /\ req.endpoint = "check"
    /\ response' = CheckResponse(facilities, req.body)
    /\ facilities' = RegistryAfterCheck(facilities, req.body)
    /\ pc' = "answered"
    /\ UNCHANGED <<startup, req>>

BookingEstimate ==
    /\ pc = "received"
    /\ req.endpoint = "estimate"
    /\ response' = EstimateResponse(facilities, req.body)
    /\ pc' = "answered"
    /\ UNCHANGED <<facilities, startup, req>>

Close ==
    /\ pc = "answered"
    /\ req' = NoRequest
    /\ response' = NoResponse
    /\ pc' = "idle"
    /\ UNCHANGED <<facilities, startup>>

Next ==
    \/ ReceiveCheck
    \/ ReceiveEstimate
    \/ AvailabilityCheck
    \/ BookingEstimate
    \/ Close

Spec == Init /\ [][Next]_vars

----------------------------------------------------------------------------
\* Vocabulary of the properties, stated on the request and the start-up
\* registry rather than on the handler's intermediate values.

Minutes(t) == 60 * t.h + t.m

IsLeapYear(yy) == (yy % 4 = 0 /\ yy % 100 # 0) \/ yy % 400 = 0

DaysInMonth(yy, mm) ==
    IF mm = 2 THEN (IF IsLeapYear(yy) THEN 29 ELSE 28)
    ELSE IF mm \in {4, 6, 9, 11} THEN 30 ELSE 31

WellFormedDate(v) == v.k = "str" /\ ~v.empty /\ v.wf

RealDate(v) ==
    /\ WellFormedDate(v)
    /\ v.m \in 1..12
    /\ v.d \in 1..DaysInMonth(v.y, v.m)

ResourceIdGiven(v) == v.k = "str" /\ v.s # ""

ClockTime(v) == v.k = "str" /\ ~v.empty /\ v.wf /\ v.h \in 0..23 /\ v.m \in 0..59

\* The value is a JSON number that is an integer >= 30.
IntegerAtLeast30(v) == v.k = "num" /\ ~v.half /\ v.n >= 30

\* The value is, or spells, an integer >= 30.
CoercedIntegerAtLeast30(v) ==
    /\ v.k = "num" \/ (v.k = "str" /\ ~v.empty /\ v.numeric)
    /\ ~v.half
    /\ v.n >= 30

ExistingResource(v) == v.s \in DOMAIN startup

Answered(ep) == pc = "answered" /\ req.endpoint = ep

\* A check request whose four fields are valid and whose resource exists.
ValidCheck ==
    /\ Answered("check")
    /\ ResourceIdGiven(req.body.facilityId)
    /\ RealDate(req.body.date)
    /\ ClockTime(req.body.startTime)
    /\ CoercedIntegerAtLeast30(req.body.durationMinutes)
    /\ ExistingResource(req.body.facilityId)

ReqStart == Minutes(req.body.startTime)

ReqDur == req.body.durationMinutes.n

ReqEnd == ReqStart + ReqDur

OpenStart == Minutes(startup[req.body.facilityId.s].open.start)

OpenEnd == Minutes(startup[req.body.facilityId.s].open.end)

ReqDateKey == [y |-> req.body.date.y, m |-> req.body.date.m, d |-> req.body.date.d]

\* The bookings of the requested date, in stored order.
Stored ==
    LET bk == startup[req.body.facilityId.s].bookings
    IN  IF ReqDateKey \in DOMAIN bk THEN bk[ReqDateKey] ELSE << >>

\* Booking b overlaps the interval [s, e).
Hits(b, s, e) == s < Minutes(b.end) /\ Minutes(b.start) < e

Overlapping == { i \in 1..Len(Stored) : Hits(Stored[i], ReqStart, ReqEnd) }

\* The interval of length ReqDur starting at s is inside open hours and
\* overlaps no booking of the date.
FreeSlotAt(s) ==
    /\ OpenStart <= s
    /\ s + ReqDur <= OpenEnd
    /\ \A i \in 1..Len(Stored) : ~Hits(Stored[i], s, s + ReqDur)

\* The check answered "not available".
Refused == ValidCheck /\ response.status = 200 /\ ~response.isAvailable

Suggested == Refused /\ Len(response.nextAvailable) = 1

NextStart == Minutes(response.nextAvailable[1].startTime)

NextEnd == Minutes(response.nextAvailable[1].endTime)

----------------------------------------------------------------------------
C2_NextAvailableConflictFree ==
    Suggested => \A i \in 1..Len(Stored) : ~Hits(Stored[i], NextStart, NextEnd)

\* A suggestion made over bookings stored out of order and overlapping.
C2_Witness ==
    /\ Suggested
    /\ \E i, j \in 1..Len(Stored) :
          /\ i < j
          /\ Minutes(Stored[j].start) < Minutes(Stored[i].start)
          /\ Hits(Stored[i], Minutes(Stored[j].start), Minutes(Stored[j].end))

\* C3: a returned nextAvailable lies fully inside the open hours, also when
\* some booking of the date lies outside them.
C3_NextAvailableInsideOpenHours ==
    Suggested => OpenStart <= NextStart /\ NextEnd <= OpenEnd

\* C4 (as stated): with several overlapping bookings the conflict is the
\* overlapping booking with the smallest start, whatever the stored order.
C4_ConflictHasSmallestStart ==
    Refused =>
        /\ Len(response.conflict) = 1
        /\ \E i \in Overlapping : Stored[i] = response.conflict[1]
        /\ \A i \in Overlapping :
              Minutes(response.conflict[1].start) <= Minutes(Stored[i].start)

\* C4 (amended): the conflict is the first booking, in stored order, that
\* overlaps the request.
C4_ConflictIsFirstStored ==
    Refused =>
        /\ Len(response.conflict) = 1
        /\ \E i \in Overlapping :
              /\ Stored[i] = response.conflict[1]
              /\ \A j \in Overlapping : i <= j

\* Two bookings overlap the request and the later one is stored first.
C4_Witness ==
    /\ Refused
    /\ \E i, j \in Overlapping :
          i < j /\ Minutes(Stored[j].start) < Minutes(Stored[i].start)

----------------------------------------------------------------------------
\* The outcome the gates of the validation layer and of the engine assign to
\* a check body, taken in their fixed order.
ExpectedOutcome(b) ==
    IF ~ResourceIdGiven(b.facilityId) THEN << 400, "facilityId is required" >>
    ELSE IF ~RealDate(b.date) THEN << 400, "date must be YYYY-MM-DD" >>
    ELSE IF ~ClockTime(b.startTime) THEN << 400, "startTime must be HH:MM" >>
    ELSE IF ~CoercedIntegerAtLeast30(b.durationMinutes)
    THEN << 400, "durationMinutes must be integer >= 30" >>
    ELSE IF ~ExistingResource(b.facilityId) THEN << 404, "facility not found" >>
    ELSE IF \/ Minutes(b.startTime) < Minutes(startup[b.facilityId.s].open.start)
            \/ Minutes(b.startTime) + b.durationMinutes.n
                   > Minutes(startup[b.facilityId.s].open.end)
    THEN << 422, "Requested time outside open hours " >>
    ELSE << 200, "" >>

Outcome(resp) == << resp.status, IF resp.status = 200 THEN "" ELSE resp.message[1] >>

\* C5: every check request has exactly one outcome, and a failure is that of
\* the first failing gate in the order resource id, date, start time,
\* duration, resource lookup, open hours.
C5_FirstFailingGate ==
    Answered("check") => Outcome(response) = ExpectedOutcome(req.body)

\* C6: a date is accepted only if it has the shape YYYY-MM-DD and is a real
\* calendar date; a well-formed string that is no real date is rejected with
\* InvalidDate.
C6_RealCalendarDate ==
    (Answered("check") /\ ResourceIdGiven(req.body.facilityId)) =>
        (Outcome(response) = << 400, "date must be YYYY-MM-DD" >>)
            = ~RealDate(req.body.date)

\* The duration gate was reached: the fields checked before it are valid.
DurationGateReached ==
    \/ /\ Answered("check")
       /\ ResourceIdGiven(req.body.facilityId)
       /\ WellFormedDate(req.body.date)
       /\ ClockTime(req.body.startTime)
    \/ /\ Answered("estimate")
       /\ ResourceIdGiven(req.body.facilityId)

DurationRejected ==
    Outcome(response) = << 400, "durationMinutes must be integer >= 30" >>

\* C7 (as stated): a durationMinutes value passes exactly when it is an
\* integer >= 30.
C7_IntegerAtLeast30 ==
    DurationGateReached =>
        (~DurationRejected) = IntegerAtLeast30(req.body.durationMinutes)

\* C7 (amended): a durationMinutes value passes exactly when Number() of it
\* is an integer >= 30, so a string spelling such an integer passes as well;
\* no multiple of a slot size is required.
C7_CoercedIntegerAtLeast30 ==
    DurationGateReached =>
        (~DurationRejected) = CoercedIntegerAtLeast30(req.body.durationMinutes)

\* The boundary value 30 passed the duration gate.
C7_Witness ==
    /\ DurationGateReached
    /\ req.body.durationMinutes = Num(30)
    /\ ~DurationRejected

\* C8: no request changes the registry, and every answer is the one the
\* start-up registry gives to that body.
C8_RegistryReadOnly ==
    /\ facilities = startup
    /\ Answered("check") => response = CheckResponse(startup, req.body)
    /\ Answered("estimate") => response = EstimateResponse(startup, req.body)

\* A refusal, with a suggestion, over bookings stored out of start order.
C8_Witness ==
    /\ Suggested
    /\ \E i, j \in 1..Len(Stored) :
          i < j /\ Minutes(Stored[j].start) < Minutes(Stored[i].start)

\* C9 (as stated): a refusal without nextAvailable means no slot of the
\* duration fits anywhere in the day.
C9_OmittedMeansNoSlotInDay ==
    (Refused /\ response.nextAvailable = << >>) =>
        \A s \in OpenStart..(OpenEnd - ReqDur) : ~FreeSlotAt(s)

\* C9 (amended): a refusal without nextAvailable means no slot of the
\* duration fits from the requested start onward.
C9_OmittedMeansNoSlotFromStart ==
    (Refused /\ response.nextAvailable = << >>) =>
        \A s \in ReqStart..(OpenEnd - ReqDur) : ~FreeSlotAt(s)

\* A refusal without a suggestion.
C9_Witness == Refused /\ response.nextAvailable = << >>

\* C10: a returned nextAvailable has the requested duration, starts strictly
\* after the requested start, and no free slot inside open hours starts at or
\* after the requested start and before it.
C10_EarliestFromStart ==
    Suggested =>
        /\ NextEnd - NextStart = ReqDur
        /\ NextStart > ReqStart
        /\ \A s \in ReqStart..(NextStart - 1) : ~FreeSlotAt(s)

\* A suggestion that exactly fills the gap between two bookings.
C10_Witness ==
    /\ Suggested
    /\ \E i, j \in 1..Len(Stored) :
          Minutes(Stored[i].end) = NextStart /\ Minutes(Stored[j].start) = NextEnd

====
